---- MODULE Spec2Model ----
(***************************************************************************)
(* ReadmeManager (src/utils/readme_manager.py): a Markdown document kept   *)
(* as a list of strings (self.content), the builder operations that append *)
(* to it, the table scanner find_table_indices, the column splice          *)
(* add_column, and save / load against the backing file.                   *)
(*                                                                         *)
(* A Python str is a sequence of one-character strings, so that startswith,*)
(* "in", split, join, strip and splitlines are computed, not assumed.      *)
(* A Python list index is 0-based: Line(buf, i) is buf[i] of the source.   *)
(* An Optional value is <<>> for None and <<v>> for a value v; the file   *)
(* and its backup copy are Optional documents, <<>> a missing file.        *)
(*                                                                         *)
(* content is self.content, err the exception the last call ended with,    *)
(* file the README on disk, backup the copy the last call put in the       *)
(* backup directory (<<>> when it put none), ret the value the last static *)
(* formatter call returned. prev, prev_file,                               *)
(* last, nops and saved record the buffer and the file before the last     *)
(* call, the call and its arguments, the number of calls, and the buffer   *)
(* the file was last written from. fresh is the buffer the calls made on   *)
(* a manager of discard mode build from the empty buffer (<<>> for a       *)
(* manager of preserve mode).                                              *)
(***************************************************************************)
EXTENDS Integers, Sequences, FiniteSets, TLC

VARIABLES content, err, prev, last, nops, file, saved, prev_file, backup, fresh, ret

vars == <<content, err, prev, last, nops, file, saved, prev_file, backup, fresh, ret>>

---------------------------------------------------------------------------
(* Bounds of the model *)

\* builder / mutator calls made on one manager in Spec
MaxOps == 4
\* builder calls made since the file was last discarded in StoreSpec
MaxStoreOps == 2
\* builder calls made since the file was last discarded in FileSpec
MaxFileOps == 2
\* add_header calls made in FormatSpec
MaxFormatOps == 2

---------------------------------------------------------------------------
(* Python str and list primitives *)

\* str.startswith("|")
StartsWithPipe(line) == Len(line) > 0 /\ line[1] = "|"

\* pat in line  (substring test)
Contains(line, pat) ==
    \E k \in 1..(Len(line) - Len(pat) + 1) : SubSeq(line, k, k + Len(pat) - 1) = pat

\* the characters str.strip() removes (ASCII whitespace)
Whitespace == {" ", "\t", "\n", "\r", "\f"}

RECURSIVE LStrip(_)
LStrip(s) == IF s # <<>> /\ s[1] \in Whitespace THEN LStrip(Tail(s)) ELSE s

RECURSIVE RStrip(_)
RStrip(s) ==
    IF s # <<>> /\ s[Len(s)] \in Whitespace THEN RStrip(SubSeq(s, 1, Len(s) - 1)) ELSE s

\* str.strip()
Strip(s) == RStrip(LStrip(s))

\* position of the first sep in s, 0 when there is none
RECURSIVE FindChar(_, _, _)
FindChar(s, sep, k) ==
    IF k > Len(s) THEN 0 ELSE IF s[k] = sep THEN k ELSE FindChar(s, sep, k + 1)

\* str.split(sep) for a one-character sep: n occurrences give n + 1 parts
RECURSIVE Split(_, _)
Split(s, sep) ==
    LET k == FindChar(s, sep, 1)
    IN  IF k = 0 THEN <<s>>
        ELSE <<SubSeq(s, 1, k - 1)>> \o Split(SubSeq(s, k + 1, Len(s)), sep)

\* sep.join(parts)
RECURSIVE Join(_, _)
Join(parts, sep) ==
    IF parts = <<>> THEN <<>>
    ELSE IF Len(parts) = 1 THEN parts[1]
    ELSE parts[1] \o sep \o Join(Tail(parts), sep)

\* the slip list.append(x) for list.insert(-1, x)
InsertBeforeLast_Append(parts, x) == Append(parts, x)

\* list.insert(-1, x): x goes before the last element (first, in an empty list)
InsertBeforeLast(parts, x) ==
    IF parts = <<>> THEN <<x>>
    ELSE SubSeq(parts, 1, Len(parts) - 1) \o <<x>> \o <<parts[Len(parts)]>>

\* "#" * level
RECURSIVE Hashes(_)
Hashes(n) == IF n <= 0 THEN <<>> ELSE <<"#">> \o Hashes(n - 1)

\* [f(x) for x in xs] with f = str.strip
StripAll(xs) == [k \in 1..Len(xs) |-> Strip(xs[k])]

\* buf[i] of the source (0-based)
Line(buf, i) == buf[i + 1]

NoError == "None"
HeadersEmpty == "ValueError: Headers list cannot be empty"
ValuesEmpty == "ValueError: Values list cannot be empty"
NoTables == "ValueError: No tables found in the README"
IndexError == "IndexError: list index out of range"
\* the OSError of a failing unlink, read_text, mkdir and write_text
DeleteFailed == "OSError: unlink"
LoadFailed == "OSError: read_text"
MkdirFailed == "OSError: mkdir"
WriteFailed == "OSError: write_text"

---------------------------------------------------------------------------
(* Builder: what each call appends *)

\* the slip of leaving out min(6, ...)
ClampLevel_NoUpper(level) == IF level > 1 THEN level ELSE 1

\* level = max(1, min(6, level))
ClampLevel(level) ==
    LET lo == IF level < 6 THEN level ELSE 6
    IN  IF lo > 1 THEN lo ELSE 1

\* the slip of leaving out the newline before the hashes
HeaderElement_NoLeadingNewline(text, level) ==
    Hashes(ClampLevel(level)) \o <<" ">> \o Strip(text) \o <<"\n">>

\* the slip of leaving out text.strip()
HeaderElement_NoStrip(text, level) ==
    <<"\n">> \o Hashes(ClampLevel(level)) \o <<" ">> \o text \o <<"\n">>

\* f'\n{"#" * level} {text.strip()}\n'
HeaderElement(text, level) ==
    <<"\n">> \o Hashes(ClampLevel(level)) \o <<" ">> \o Strip(text) \o <<"\n">>

\* the slip of appending the text as it is
TextElement_NoNewline(text) == text

\* f"{text}\n"
TextElement(text) == text \o <<"\n">>

\* "| " + " | ".join(cells) + " |"
RowLine(cells) == <<"|", " ">> \o Join(cells, <<" ", "|", " ">>) \o <<" ", "|">>

\* the slip of a single "---" whatever the number of headers
Dashes_One(n) == <<<<"-", "-", "-">>>>

\* ["---"] * len(headers)
Dashes(n) == [k \in 1..n |-> <<"-", "-", "-">>]

\* create_table: content.extend(["", header_row, separator_row])
TableLines(headers) ==
    <<<<>>, RowLine(StripAll(headers)), RowLine(Dashes(Len(headers)))>>

\* the slip of leaving out the test of an empty list
create_table_result_NoCheck(buf, headers) ==
    [content |-> buf \o TableLines(headers), err |-> NoError]

\* create_table: the buffer it leaves and the exception it ends with
create_table_result(buf, headers) ==
    IF headers = <<>> THEN [content |-> buf, err |-> HeadersEmpty]
    ELSE [content |-> buf \o TableLines(headers), err |-> NoError]

\* the slip of list.insert(-1, row) for list.append(row)
add_table_row_result_BeforeLast(buf, values) ==
    IF values = <<>> THEN [content |-> buf, err |-> ValuesEmpty]
    ELSE [content |-> InsertBeforeLast(buf, RowLine(StripAll(values))), err |-> NoError]

\* add_table_row: the buffer it leaves and the exception it ends with
add_table_row_result(buf, values) ==
    IF values = <<>> THEN [content |-> buf, err |-> ValuesEmpty]
    ELSE [content |-> Append(buf, RowLine(StripAll(values))), err |-> NoError]

---------------------------------------------------------------------------
(* Storage: the text save writes and the lines _load_content reads *)

\* the slip of leaving out the final newline
SaveText_NoFinalNewline(buf) == Join(buf, <<"\n">>)

\* "\n".join(self.content) + "\n"
SaveText(buf) == Join(buf, <<"\n">>) \o <<"\n">>

\* read_text(): text mode turns "\r\n" and a lone "\r" into "\n"
RECURSIVE ReadText(_)
ReadText(doc) ==
    IF doc = <<>> THEN <<>>
    ELSE IF doc[1] = "\r"
    THEN <<"\n">> \o ReadText(IF Len(doc) > 1 /\ doc[2] = "\n"
                               THEN SubSeq(doc, 3, Len(doc)) ELSE Tail(doc))
    ELSE <<doc[1]>> \o ReadText(Tail(doc))

\* the line boundaries of str.splitlines() that a string of this model can hold
LineBreaks == {"\n", "\r", "\f"}

\* position of the first line boundary of s from k on, 0 when there is none
RECURSIVE FindBreak(_, _)
FindBreak(s, k) ==
    IF k > Len(s) THEN 0 ELSE IF s[k] \in LineBreaks THEN k ELSE FindBreak(s, k + 1)

\* str.splitlines(): no line for the empty string, none after a final boundary,
\* "\r\n" one boundary
RECURSIVE SplitLines(_)
SplitLines(s) ==
    IF s = <<>> THEN <<>>
    ELSE LET k == FindBreak(s, 1)
             past == IF k > 0 /\ s[k] = "\r" /\ k < Len(s) /\ s[k + 1] = "\n"
                     THEN k + 1 ELSE k
         IN  IF k = 0 THEN <<s>>
             ELSE <<SubSeq(s, 1, k - 1)>> \o SplitLines(SubSeq(s, past + 1, Len(s)))

\* _load_content: the file's lines when it exists, else the buffer __init__ made
LoadContent(f) == IF f = <<>> THEN <<>> ELSE SplitLines(ReadText(f[1]))

\* the slip of opening the file for append
WriteText_Append(f, text) == IF f = <<>> THEN <<text>> ELSE <<f[1] \o text>>

\* write_text: the file holds the text and nothing else
WriteText(f, text) == <<text>>

\* save with the storage failing at step fault ("none": no failure): a failing
\* mkdir leaves the file alone, a failing write leaves it opened and empty
save_result(f, buf, fault) ==
    IF fault = "mkdir" THEN [file |-> f, err |-> MkdirFailed]
    ELSE IF fault = "write" THEN [file |-> <<<<>>>>, err |-> WriteFailed]
    ELSE [file |-> WriteText(f, SaveText(buf)), err |-> NoError]

\* the slip of letting the failure of the copy out of _create_backup
create_backup_result_Raises(f, fault) ==
    IF fault = "backup" THEN [backup |-> <<>>, err |-> "OSError: copy2"]
    ELSE [backup |-> f, err |-> NoError]

\* _create_backup: a copy of the file, or a warning and no copy
create_backup_result(f, fault) ==
    IF fault = "backup" THEN [backup |-> <<>>, err |-> NoError]
    ELSE [backup |-> f, err |-> NoError]

\* the slip of logging the failure of unlink and going on
unlink_result_Swallowed(f, fault) ==
    IF fault = "unlink" THEN [file |-> f, err |-> NoError]
    ELSE [file |-> <<>>, err |-> NoError]

\* self.filepath.unlink() in its try / except ... raise
unlink_result(f, fault) ==
    IF fault = "unlink" THEN [file |-> f, err |-> DeleteFailed]
    ELSE [file |-> <<>>, err |-> NoError]

\* the slip of reading a file that is not there
load_content_result_MissingRaises(f, fault) ==
    IF f = <<>> \/ fault = "read" THEN [content |-> <<>>, err |-> LoadFailed]
    ELSE [content |-> LoadContent(f), err |-> NoError]

\* _load_content in its try / except ... raise
load_content_result(f, fault) ==
    IF f # <<>> /\ fault = "read" THEN [content |-> <<>>, err |-> LoadFailed]
    ELSE [content |-> LoadContent(f), err |-> NoError]

\* the slip of loading the file whatever the mode
initialize_file_result_AlwaysLoad(f, preserve_existing, backup_enabled, fault) ==
    [content |-> LoadContent(f), file |-> f, backup |-> <<>>, err |-> NoError]

\* __init__ and _initialize_file: self.content = [], then in discard mode the
\* backup and the unlink of an existing file, in preserve mode the load
initialize_file_result(f, preserve_existing, backup_enabled, fault) ==
    IF ~preserve_existing /\ f # <<>>
    THEN LET copied == IF backup_enabled THEN create_backup_result(f, fault)
                       ELSE [backup |-> <<>>, err |-> NoError]
             deleted == unlink_result(f, fault)
         IN  IF copied.err # NoError
             THEN [content |-> <<>>, file |-> f, backup |-> copied.backup,
                   err |-> copied.err]
             ELSE [content |-> <<>>, file |-> deleted.file, backup |-> copied.backup,
                   err |-> deleted.err]
    ELSE IF preserve_existing
    THEN LET loaded == load_content_result(f, fault)
         IN  [content |-> loaded.content, file |-> f, backup |-> <<>>, err |-> loaded.err]
    ELSE [content |-> <<>>, file |-> f, backup |-> <<>>, err |-> NoError]

---------------------------------------------------------------------------
(* Formatter: create_link and create_image_link *)

\* str.replace(ch, rep) for a one-character ch
RECURSIVE Replace(_, _, _)
Replace(s, ch, rep) ==
    IF s = <<>> THEN <<>>
    ELSE (IF s[1] = ch THEN rep ELSE <<s[1]>>) \o Replace(Tail(s), ch, rep)

\* text.replace("|", "\\|").strip()
EscapeText(text) == Strip(Replace(text, "|", <<"\\", "|">>))

\* the slip of trimming the url and leaving its "|"
EscapeUrl_NoReplace(url) == Strip(url)

\* url.replace("|", "%7C").strip()
EscapeUrl(url) == Strip(Replace(url, "|", <<"%", "7", "C">>))

\* f"[{text}]({url})"
create_link(text, url) ==
    <<"[">> \o EscapeText(text) \o <<"]", "(">> \o EscapeUrl(url) \o <<")">>

\* the slip of testing link_url is not None
HasLink_NotNone(link_url) == link_url # <<>>

\* if link_url: neither None nor the empty string
HasLink(link_url) == link_url # <<>> /\ link_url[1] # <<>>

\* f"![{alt_text}]({image_url})"
ImageMarkup(alt_text, image_url) ==
    <<"!", "[">> \o EscapeText(alt_text) \o <<"]", "(">> \o EscapeUrl(image_url) \o <<")">>

\* create_image_link: the image, wrapped in a link when link_url is truthy
create_image_link(alt_text, image_url, link_url) ==
    LET image == ImageMarkup(alt_text, image_url)
    IN  IF HasLink(link_url)
        THEN <<"[">> \o image \o <<"]", "(">> \o EscapeUrl(link_url[1]) \o <<")">>
        ELSE image

---------------------------------------------------------------------------
(* Table region scanner *)

ScanInit == [start_idx |-> <<>>, tables |-> <<>>]

\* the slip of always taking i + 1 as the end
EndIdx_AlwaysNext(line, i) == i + 1

\* end_idx = i if not line.startswith("|") else i + 1
EndIdx(line, i) == IF ~StartsWithPipe(line) THEN i ELSE i + 1

\* the slip of leaving out start_idx = None
CloseRegion_KeepOpen(st, end_idx) ==
    [st EXCEPT !.tables = Append(st.tables, <<st.start_idx[1], end_idx>>)]

\* tables.append((start_idx, end_idx)); start_idx = None
CloseRegion(st, end_idx) ==
    [start_idx |-> <<>>, tables |-> Append(st.tables, <<st.start_idx[1], end_idx>>)]

\* one iteration of the for loop of find_table_indices, at index i
ScanStep(buf, i, st) ==
    LET line == Line(buf, i)
    IN  IF /\ StartsWithPipe(line)
           /\ i + 1 < Len(buf)
           /\ Contains(Line(buf, i + 1), <<"-", "-", "-">>)
        THEN [st EXCEPT !.start_idx = <<i>>]
        ELSE IF /\ st.start_idx # <<>>
                /\ (~StartsWithPipe(line) \/ i = Len(buf) - 1)
        THEN CloseRegion(st, EndIdx(line, i))
        ELSE st

\* the loop's state after the iterations 0 .. n-1
RECURSIVE ScanAfter(_, _)
ScanAfter(buf, n) ==
    IF n = 0 THEN ScanInit ELSE ScanStep(buf, n - 1, ScanAfter(buf, n - 1))

find_table_indices(buf) == ScanAfter(buf, Len(buf)).tables

---------------------------------------------------------------------------
(* Table mutator *)

\* parts = line.split("|"); parts.insert(-1, cell); "|".join(parts)
InsertCell(line, cell) == Join(InsertBeforeLast(Split(line, "|"), cell), <<"|">>)

\* f" {str(value).strip()} "
Cell(value) == <<" ">> \o Strip(value) \o <<" ">>

\* for i, value in enumerate(values, start=2): the k-th value (k from 1) has i = k + 1
RECURSIVE FillRows(_, _, _, _, _)
FillRows(buf, start_idx, end_idx, values, k) ==
    IF k > Len(values) THEN buf
    ELSE LET i == k + 1
             next == IF start_idx + i < end_idx
                     THEN [buf EXCEPT ![start_idx + i + 1] =
                               InsertCell(Line(buf, start_idx + i), Cell(values[k]))]
                     ELSE buf
         IN  FillRows(next, start_idx, end_idx, values, k + 1)

\* the slip of taking the first region, tables[0]
PickTable_First(tables) == tables[1]

\* the region add_column works on: tables[-1]
PickTable(tables) == tables[Len(tables)]

\* values = [""] * (len(rows) - 2) when values is None
DefaultValues(values, rows) ==
    IF values = <<>> THEN [k \in 1..(Len(rows) - 2) |-> <<>>] ELSE values[1]

\* add_column once a region is found: the header row, the separator row (an
\* IndexError when the region has a single row), then the data rows
SpliceColumn(buf, tables, header, values) ==
    LET start_idx == PickTable(tables)[1]
        end_idx == PickTable(tables)[2]
        rows == SubSeq(buf, start_idx + 1, end_idx)
        c1 == [buf EXCEPT ![start_idx + 1] = InsertCell(rows[1], Cell(header))]
    IN  IF Len(rows) < 2 THEN [content |-> c1, err |-> IndexError]
        ELSE
        LET c2 == [c1 EXCEPT ![start_idx + 2] =
                       InsertCell(rows[2], <<" ", "-", "-", "-", " ">>)]
        IN  [content |-> FillRows(c2, start_idx, end_idx,
                                  DefaultValues(values, rows), 1),
             err |-> NoError]

\* the slip of returning silently when no table is found
add_column_result_SilentReturn(buf, header, values) ==
    IF find_table_indices(buf) = <<>> THEN [content |-> buf, err |-> NoError]
    ELSE SpliceColumn(buf, find_table_indices(buf), header, values)

\* add_column: the buffer it leaves and the exception it ends with
add_column_result(buf, header, values) ==
    IF find_table_indices(buf) = <<>> THEN [content |-> buf, err |-> NoTables]
    ELSE SpliceColumn(buf, find_table_indices(buf), header, values)

---------------------------------------------------------------------------
(* Inputs *)

NoArgs ==
    [op |-> "init", text |-> <<>>, level |-> 1, list |-> <<>>, values |-> <<>>,
     preserve_existing |-> FALSE, backup_enabled |-> TRUE, fault |-> "none",
     url |-> <<>>, link_url |-> <<>>]

HeaderTexts == {<<" ", "X">>}
Levels == {0, 2, 7}
Texts == {<<"t">>, <<"-", "-", "-">>}
HeaderLists == {<<>>, <<<<"A", " ">>, <<"B">>>>}
RowLists == {<<>>, <<<<" ", "x">>>>, <<<<"-", "-", "-">>>>}
ColumnHeaders == {<<" ", "D">>}
ColumnValues == {<<>>, <<<<<<" ", "1">>>>>>, <<<<<<" ", "1">>, <<"2">>>>>>}
\* the step of __init__ / save at which the storage fails, "none" for no failure
InitFaults == {"none", "backup", "unlink", "read"}
SaveFaults == {"none", "mkdir", "write"}
\* the constructions: a failure only at a step the construction can reach
\* (the load in preserve mode, the backup when enabled and the unlink in
\* discard mode); the backup policy only matters in discard mode
InitCalls ==
    {c \in [preserve_existing : BOOLEAN, backup_enabled : BOOLEAN, fault : InitFaults] :
        /\ c.fault = "read" => c.preserve_existing
        /\ c.fault \in {"backup", "unlink"} => ~c.preserve_existing
        /\ c.fault = "backup" => c.backup_enabled
        /\ c.preserve_existing => c.backup_enabled}
\* documents another program left in the file: with and without a final
\* newline, with a carriage return
Documents == {<<"o", "\n">>, <<"a", "\r", "\n", "b">>}
\* levels of add_header below, inside and above 1..6
AllLevels == (-1)..8
LinkTexts == {<<"a">>, <<" ", "a", "|", "b">>, <<"|", "|", " ">>}
LinkUrls == {<<"u">>, <<"u", "|", "v", " ">>, <<" ", "|", "|">>}
\* link_url: None, the empty string, a blank, a padded url with a "|"
LinkUrlOptions == {<<>>, <<<<>>>>, <<<<" ">>>>, <<<<" ", "w", "|">>>>}

---------------------------------------------------------------------------
(* Operations *)

Init ==
    /\ content = <<>>
    /\ err = NoError
    /\ prev = <<>>
    /\ last = NoArgs
    /\ nops = 0
    /\ file = <<>>
    /\ saved = <<>>
    /\ prev_file = <<>>
    /\ backup = <<>>
    /\ fresh = <<<<>>>>
    /\ ret = <<>>

Called(args) ==
    /\ prev' = content
    /\ prev_file' = file
    /\ last' = args
    /\ nops' = nops + 1
    /\ backup' = <<>>

\* the buffer built from the empty buffer, and the same call made on it
FreshBuffer == IF fresh = <<>> THEN <<>> ELSE fresh[1]

OnFresh(buf) == fresh' = IF fresh = <<>> THEN <<>> ELSE <<buf>>

add_header(text, level) ==
    /\ content' = Append(content, HeaderElement(text, level))
    /\ err' = NoError
    /\ Called([NoArgs EXCEPT !.op = "add_header", !.text = text, !.level = level])
    /\ OnFresh(Append(FreshBuffer, HeaderElement(text, level)))
    /\ UNCHANGED <<file, saved, ret>>

add_text(text) ==
    /\ content' = Append(content, TextElement(text))
    /\ err' = NoError
    /\ Called([NoArgs EXCEPT !.op = "add_text", !.text = text])
    /\ OnFresh(Append(FreshBuffer, TextElement(text)))
    /\ UNCHANGED <<file, saved, ret>>

create_table(headers) ==
    /\ LET result == create_table_result(content, headers)
       IN  content' = result.content /\ err' = result.err
    /\ Called([NoArgs EXCEPT !.op = "create_table", !.list = headers])
    /\ OnFresh(create_table_result(FreshBuffer, headers).content)
    /\ UNCHANGED <<file, saved, ret>>

add_table_row(values) ==
    /\ LET result == add_table_row_result(content, values)
       IN  content' = result.content /\ err' = result.err
    /\ Called([NoArgs EXCEPT !.op = "add_table_row", !.list = values])
    /\ OnFresh(add_table_row_result(FreshBuffer, values).content)
    /\ UNCHANGED <<file, saved, ret>>

add_column(header, values) ==
    /\ LET result == add_column_result(content, header, values)
       IN  content' = result.content /\ err' = result.err
    /\ Called([NoArgs EXCEPT !.op = "add_column", !.text = header, !.values = values])
    /\ OnFresh(add_column_result(FreshBuffer, header, values).content)
    /\ UNCHANGED <<file, saved, ret>>

\* save: the whole file is overwritten with the buffer's text, unless the
\* storage fails, and then the exception is raised again
save_with(fault) ==
    /\ LET result == save_result(file, content, fault)
       IN  /\ file' = result.file
           /\ err' = result.err
           /\ saved' = IF result.err = NoError THEN <<content>>
                       ELSE IF result.file = file THEN saved ELSE <<>>
    /\ prev' = content
    /\ prev_file' = file
    /\ last' = [NoArgs EXCEPT !.op = "save", !.fault = fault]
    /\ backup' = <<>>
    /\ UNCHANGED <<content, nops, fresh, ret>>

save == save_with("none")

\* __init__ of a new manager on the same file: content = [], then
\* _initialize_file deletes an existing file (preserve_existing False) or
\* loads it (preserve_existing True); the calls counted start again when the
\* file is gone
init_manager_with(preserve_existing, backup_enabled, fault) ==
    /\ LET result == initialize_file_result(file, preserve_existing,
                                            backup_enabled, fault)
       IN  /\ content' = result.content
           /\ file' = result.file
           /\ backup' = result.backup
           /\ err' = result.err
           /\ saved' = IF result.file = file THEN saved ELSE <<>>
           /\ nops' = IF preserve_existing \/ result.err # NoError THEN nops ELSE 0
           /\ fresh' = IF preserve_existing \/ result.err # NoError THEN <<>>
                       ELSE <<<<>>>>
    /\ prev' = content
    /\ prev_file' = file
    /\ last' = [NoArgs EXCEPT !.op = "__init__",
                              !.preserve_existing = preserve_existing,
                              !.backup_enabled = backup_enabled, !.fault = fault]
    /\ UNCHANGED ret

init_manager(preserve_existing) == init_manager_with(preserve_existing, TRUE, "none")

\* another program writes the file between two runs
write_file(doc) ==
    /\ file' = <<doc>>
    /\ saved' = <<>>
    /\ prev' = content
    /\ prev_file' = file
    /\ last' = [NoArgs EXCEPT !.op = "write_file", !.text = doc]
    /\ backup' = <<>>
    /\ UNCHANGED <<content, err, nops, fresh, ret>>

\* a call of the static method create_link
call_create_link(text, url) ==
    /\ ret' = create_link(text, url)
    /\ last' = [NoArgs EXCEPT !.op = "create_link", !.text = text, !.url = url]
    /\ UNCHANGED <<content, err, prev, nops, file, saved, prev_file, backup, fresh>>

Allowed == nops < MaxOps

Next ==
    \/ \E text \in HeaderTexts, level \in Levels : Allowed /\ add_header(text, level)
    \/ \E text \in Texts : Allowed /\ add_text(text)
    \/ \E headers \in HeaderLists : Allowed /\ create_table(headers)
    \/ \E values \in RowLists : Allowed /\ add_table_row(values)
    \/ \E header \in ColumnHeaders, values \in ColumnValues :
          Allowed /\ add_column(header, values)

Spec == Init /\ [][Next]_vars

StoreAllowed == nops < MaxStoreOps

\* the builder calls, save, and a later run constructing a manager on the file
StoreNext ==
    \/ \E text \in HeaderTexts, level \in Levels : StoreAllowed /\ add_header(text, level)
    \/ \E text \in Texts : StoreAllowed /\ add_text(text)
    \/ \E headers \in HeaderLists : StoreAllowed /\ create_table(headers)
    \/ \E values \in RowLists : StoreAllowed /\ add_table_row(values)
    \/ \E header \in ColumnHeaders, values \in ColumnValues :
          StoreAllowed /\ add_column(header, values)
    \/ save
    \/ \E preserve_existing \in BOOLEAN : init_manager(preserve_existing)

StoreSpec == Init /\ [][StoreNext]_vars

\* the last construction, if any, gave a manager
Constructed == ~(last.op = "__init__" /\ err # NoError)

FileAllowed == nops < MaxFileOps /\ Constructed

\* the runs of a program on a file that other programs write too, with a
\* storage that can fail: a run that failed to construct its manager makes
\* no further call
FileNext ==
    \/ FileAllowed /\ add_header(<<" ", "X">>, 2)
    \/ FileAllowed /\ add_text(<<"t">>)
    \/ FileAllowed /\ create_table(<<<<"A", " ">>, <<"B">>>>)
    \/ FileAllowed /\ add_table_row(<<<<" ", "x">>>>)
    \/ FileAllowed /\ add_column(<<" ", "D">>, <<>>)
    \/ \E fault \in SaveFaults : Constructed /\ save_with(fault)
    \/ \E c \in InitCalls :
          init_manager_with(c.preserve_existing, c.backup_enabled, c.fault)
    \/ \E doc \in Documents : write_file(doc)

FileSpec == Init /\ [][FileNext]_vars

\* a call of the static method create_image_link
call_create_image_link(alt_text, image_url, link_url) ==
    /\ ret' = create_image_link(alt_text, image_url, link_url)
    /\ last' = [NoArgs EXCEPT !.op = "create_image_link", !.text = alt_text,
                              !.url = image_url, !.link_url = link_url]
    /\ UNCHANGED <<content, err, prev, nops, file, saved, prev_file, backup, fresh>>

FormatAllowed == nops < MaxFormatOps

\* add_header at every level, and the static formatter
FormatNext ==
    \/ \E text \in HeaderTexts, level \in AllLevels :
          FormatAllowed /\ add_header(text, level)
    \/ \E text \in LinkTexts, url \in LinkUrls : call_create_link(text, url)
    \/ \E alt_text \in LinkTexts, image_url \in LinkUrls, link_url \in LinkUrlOptions :
          call_create_image_link(alt_text, image_url, link_url)

FormatSpec == Init /\ [][FormatNext]_vars

---------------------------------------------------------------------------
(* Vocabulary of the properties *)

\* s with every "|" replaced by rep, then trimmed
Escaped(s, rep) == Strip(Join(Split(s, "|"), rep))

\* the image markup the last call of create_image_link was to make
LastImage ==
    <<"!", "[">> \o Escaped(last.text, <<"\\", "|">>) \o <<"]", "(">>
        \o Escaped(last.url, <<"%", "7", "C">>) \o <<")">>

\* LastImage wrapped in a link to the escaped link_url of the last call
LastImageLinked ==
    <<"[">> \o LastImage \o <<"]", "(">>
        \o Escaped(last.link_url[1], <<"%", "7", "C">>) \o <<")">>

\* the scanner's regions of a buffer, each <<start_index, end_index>>
Regions(buf) == find_table_indices(buf)

\* the region a call of add_column on buf works on
LastRegion(buf) == Regions(buf)[Len(Regions(buf))]

HasNewline(s) == \E j \in 1..Len(s) : s[j] = "\n"

EndsWithPipe(s) == Len(s) > 0 /\ s[Len(s)] = "|"

\* number of segments of a row, as the splice sees them
Segments(s) == Len(Split(s, "|"))

\* the last call was add_column and found a region
ColumnAdded == last.op = "add_column" /\ Regions(prev) # <<>>

\* the values the last call of add_column was given (none when omitted)
GivenValues == IF last.values = <<>> THEN <<>> ELSE last.values[1]

\* a manager was just constructed in preserve mode on a file save wrote
Reloaded == last.op = "__init__" /\ last.preserve_existing /\ saved # <<>>

NewlinesOf(s) == Cardinality({j \in 1..Len(s) : s[j] = "\n"})

\* number of newline characters held in the elements of buf
RECURSIVE NewlinesIn(_)
NewlinesIn(buf) == IF buf = <<>> THEN 0 ELSE NewlinesOf(buf[1]) + NewlinesIn(Tail(buf))

\* lines a .. b-1 (0-based) are a table: header, separator, data rows
TableAt(buf, a, b) ==
    /\ a + 2 <= b
    /\ \A i \in a..(b - 1) : StartsWithPipe(Line(buf, i))
    /\ Contains(Line(buf, a + 1), <<"-", "-", "-">>)

\* buf holds two tables, a line not starting with "|" between them, and no
\* other line starting with "|"
TwoTables(buf) ==
    \E a \in 0..(Len(buf) - 5) : \E b \in (a + 2)..(Len(buf) - 3) :
    \E c \in (b + 1)..(Len(buf) - 2) : \E d \in (c + 2)..Len(buf) :
        /\ TableAt(buf, a, b) /\ TableAt(buf, c, d)
        /\ \A i \in 0..(Len(buf) - 1) :
               (i < a \/ (b <= i /\ i < c) \/ d <= i) => ~StartsWithPipe(Line(buf, i))

NoPipeLine(buf) == \A k \in 1..Len(buf) : ~StartsWithPipe(buf[k])

\* the last call was add_column on a region of header, separator and n rows
\* that all end with "|", with exactly n values
ExactValues ==
    /\ ColumnAdded
    /\ last.values # <<>>
    /\ LET start_idx == LastRegion(prev)[1]
           end_idx == LastRegion(prev)[2]
       IN  /\ end_idx - start_idx >= 2
           /\ Len(last.values[1]) = end_idx - start_idx - 2
           /\ \A i \in start_idx..(end_idx - 1) : EndsWithPipe(Line(prev, i))

\* row with the cell " v " put right before its trailing "|"
WithCell(row, v) == row \o <<" ">> \o v \o <<" ", "|">>

\* the last len characters of s
Suffix(s, len) == SubSeq(s, Len(s) - len + 1, Len(s))

\* the row "| c1 | ... | cn |": a "|", then " c |" for each cell
RECURSIVE CellsThenPipe(_)
CellsThenPipe(cells) ==
    IF cells = <<>> THEN <<>>
    ELSE <<" ">> \o cells[1] \o <<" ", "|">> \o CellsThenPipe(Tail(cells))

PipeRow(cells) == <<"|">> \o CellsThenPipe(cells)

Min(a, b) == IF a < b THEN a ELSE b
Max(a, b) == IF a > b THEN a ELSE b

\* every element of buf followed by a newline, one after the other
RECURSIVE EachThenNewline(_)
EachThenNewline(buf) ==
    IF buf = <<>> THEN <<>> ELSE buf[1] \o <<"\n">> \o EachThenNewline(Tail(buf))

\* buf is the line sequence of the text t: no line holds a boundary, the
\* lines joined by newlines give t up to its final newline, and only the
\* empty text has no line
LinesOf(buf, t) ==
    /\ \A k \in 1..Len(buf) : \A j \in 1..Len(buf[k]) : buf[k][j] \notin LineBreaks
    /\ IF t # <<>> /\ t[Len(t)] = "\n"
       THEN Join(buf, <<"\n">>) \o <<"\n">> = t
       ELSE Join(buf, <<"\n">>) = t
    /\ buf = <<>> <=> t = <<>>

\* the last call was a construction / a save, and the storage did not fail
InitDone == last.op = "__init__" /\ last.fault = "none"
SaveDone == last.op = "save" /\ last.fault = "none"

\* the last call was a construction in discard mode, backups enabled, on an
\* existing file, the storage failing at the backup or not at all
BackupCase ==
    /\ last.op = "__init__" /\ ~last.preserve_existing /\ last.backup_enabled
    /\ prev_file # <<>>
    /\ last.fault \in {"none", "backup"}

\* the scan opened a region at index i: start_idx = i after the iteration i
OpenedAt(buf, i) == ScanAfter(buf, i + 1).start_idx = <<i>>

\* index j closes an open region: its line does not start with "|", or it is
\* the last index
Closes(buf, j) == ~StartsWithPipe(Line(buf, j)) \/ j = Len(buf) - 1

\* the first index after i that closes, and the end boundary it gives
FirstClose(buf, i) ==
    CHOOSE j \in (i + 1)..(Len(buf) - 1) :
        Closes(buf, j) /\ \A k \in (i + 1)..(j - 1) : ~Closes(buf, k)

Boundary(buf, j) == IF StartsWithPipe(Line(buf, j)) THEN j + 1 ELSE j

\* index i lies in a region the scanner returns for buf
InRegion(buf, i) ==
    LET regs == Regions(buf)
    IN  \E r \in 1..Len(regs) : regs[r][1] <= i /\ i < regs[r][2]

\* add_table_row appended a row to a buffer whose last element was no table line
RowAfterOtherContent ==
    /\ last.op = "add_table_row" /\ last.list # <<>>
    /\ prev # <<>> /\ ~StartsWithPipe(prev[Len(prev)])

\* the last call was create_table / add_table_row with a list that is not empty
TableCreated == last.op = "create_table" /\ last.list # <<>>
RowAdded == last.op = "add_table_row" /\ last.list # <<>>

---------------------------------------------------------------------------
(* C1: when the values passed to add_column are fewer than the data rows  *)
(* of the last region (or are omitted), every data row of the region      *)
(* still gains exactly one cell: its value for a covered row, an empty    *)
(* cell for the rows beyond the values.                                   *)
C1_ShortValuesFillEveryRow ==
    (ColumnAdded /\ err = NoError) =>
        LET start_idx == LastRegion(prev)[1]
            end_idx == LastRegion(prev)[2]
            n == end_idx - start_idx - 2
        IN  Len(GivenValues) < n =>
                \A k \in 1..n :
                    /\ Segments(Line(content, start_idx + 1 + k))
                         = Segments(Line(prev, start_idx + 1 + k)) + 1
                    /\ Line(content, start_idx + 1 + k)
                         = InsertCell(Line(prev, start_idx + 1 + k),
                                      Cell(IF k <= Len(GivenValues)
                                           THEN GivenValues[k] ELSE <<>>))

---------------------------------------------------------------------------
(* C2: after save, a manager constructed in preserve mode on the same file *)
(* holds a buffer equal to the buffer that was saved, whatever builder     *)
(* calls made that buffer, the empty buffer included (as claimed).         *)
C2_RoundTrip == Reloaded => content = saved[1]

(* C2, amended: the reloaded buffer joined with newlines equals the saved  *)
(* buffer joined with newlines (the same document); the two line sequences *)
(* are equal exactly when the saved buffer is not empty and none of its    *)
(* elements holds a newline. Otherwise the reloaded buffer has one element *)
(* more per newline held in an element, and one line for the empty buffer. *)
C2_RoundTripOfDocument ==
    Reloaded =>
        /\ Join(content, <<"\n">>) = Join(saved[1], <<"\n">>)
        /\ \A k \in 1..Len(content) : ~HasNewline(content[k])
        /\ Len(content) = IF saved[1] = <<>> THEN 1
                          ELSE Len(saved[1]) + NewlinesIn(saved[1])
        /\ content = saved[1]
             <=> (saved[1] # <<>> /\ \A k \in 1..Len(saved[1]) : ~HasNewline(saved[1][k]))

\* a saved table with a data row came back as it was saved
C2_Witness ==
    /\ Reloaded
    /\ content = saved[1]
    /\ Len(content) >= 4
    /\ prev # content

---------------------------------------------------------------------------
(* C3: every element of the buffer is one line without a newline          *)
(* character (as claimed).                                                *)
C3_NoEmbeddedNewline == \A k \in 1..Len(content) : ~HasNewline(content[k])

(* C3, amended: for arguments without newlines, a buffer element holds a   *)
(* newline only at its first or last position: the element add_header      *)
(* appends starts and ends with one, the element add_text appends ends     *)
(* with one, and the lines create_table and add_table_row append hold none.*)
C3_NewlinesOnlyAtEnds ==
    /\ \A k \in 1..Len(content) :
           \A j \in 1..Len(content[k]) :
               content[k][j] = "\n" => j \in {1, Len(content[k])}
    /\ last.op = "add_header" =>
           LET e == content[Len(content)]
           IN  Len(e) >= 2 /\ e[1] = "\n" /\ e[Len(e)] = "\n"
    /\ last.op = "add_text" =>
           LET e == content[Len(content)]
           IN  e[Len(e)] = "\n" /\ SubSeq(e, 1, Len(e) - 1) = last.text
    /\ (last.op \in {"create_table", "add_table_row"} /\ err = NoError) =>
           \A k \in (Len(prev) + 1)..Len(content) : ~HasNewline(content[k])

\* a header element and a text element in a buffer add_column has worked on
C3_Witness ==
    /\ last.op = "add_column" /\ err = NoError
    /\ \E k \in 1..Len(content) : HasNewline(content[k]) /\ content[k][1] = "\n"
    /\ \E k \in 1..Len(content) : HasNewline(content[k]) /\ content[k][1] # "\n"

---------------------------------------------------------------------------
(* C4: add_column on a buffer in which the scanner finds no region ends    *)
(* with the no-table error and leaves the buffer as it was: same length,   *)
(* same elements.                                                          *)
C4_NoTableNoChange ==
    (last.op = "add_column" /\ Regions(prev) = <<>>) =>
        /\ err = NoTables
        /\ Len(content) = Len(prev)
        /\ \A k \in 1..Len(prev) : content[k] = prev[k]

\* add_column failed on a buffer that holds rows but no table
C4_Witness ==
    /\ last.op = "add_column" /\ Regions(prev) = <<>>
    /\ \E k \in 1..Len(prev) : StartsWithPipe(prev[k])

---------------------------------------------------------------------------
(* C5: during the scan regions do not overlap and an open region is never  *)
(* restarted: once start_idx is set it keeps its value until the region is *)
(* closed, so a region starts at the first header line of its table.       *)
C5_OpenRegionNeverRestarts ==
    /\ LET regs == Regions(content)
       IN  \A a, b \in 1..Len(regs) : a < b => regs[a][2] <= regs[b][1]
    /\ \A i \in 0..(Len(content) - 1) :
           LET before == ScanAfter(content, i).start_idx
               after == ScanAfter(content, i + 1).start_idx
           IN  before # <<>> => after \in {before, <<>>}

---------------------------------------------------------------------------
(* C6: every region <<s, e>> the scanner returns has a line starting with  *)
(* "|" at s, a line containing "---" at s + 1 (which exists), and only     *)
(* lines starting with "|" at the indices s .. e - 1.                      *)
C6_RegionShape ==
    LET regs == Regions(content)
    IN  \A r \in 1..Len(regs) :
        LET s == regs[r][1]
            e == regs[r][2]
        IN  /\ 0 <= s /\ s < Len(content)
            /\ StartsWithPipe(Line(content, s))
            /\ s + 1 < Len(content)
            /\ Contains(Line(content, s + 1), <<"-", "-", "-">>)
            /\ e <= Len(content)
            /\ \A i \in s..(e - 1) : StartsWithPipe(Line(content, i))

\* two regions, one of them with a data row and closed by a later line
C6_Witness ==
    LET regs == Regions(content)
    IN  /\ Len(regs) >= 2
        /\ \E r \in 1..Len(regs) :
               regs[r][2] - regs[r][1] >= 3 /\ regs[r][2] < Len(content)

---------------------------------------------------------------------------
(* C7: on a buffer that holds two tables with at least one line not        *)
(* starting with "|" between them (and no other line starting with "|")    *)
(* the scanner returns exactly two regions, the first ending at or before  *)
(* the start of the second; on a buffer without any line starting with "|" *)
(* it returns none.                                                        *)
C7_TwoTablesTwoRegions ==
    /\ TwoTables(content) =>
           LET regs == Regions(content)
           IN  /\ Len(regs) = 2
               /\ regs[1][1] < regs[1][2]
               /\ regs[1][2] <= regs[2][1]
               /\ regs[2][1] < regs[2][2]
    /\ NoPipeLine(content) => Regions(content) = <<>>

\* two tables with a header or text element somewhere in the buffer
C7_Witness ==
    /\ TwoTables(content)
    /\ \E k \in 1..Len(content) : content[k] # <<>> /\ ~StartsWithPipe(content[k])

---------------------------------------------------------------------------
(* C8: when the last region is a header row, a separator row and n data    *)
(* rows, each ending with "|", and add_column(h, values) is given exactly  *)
(* n values, the cell " h " goes into the header row, " --- " into the     *)
(* separator row and " values[k] " into the k-th data row, each right      *)
(* before the trailing "|" (as claimed: h and the values as passed).       *)
C8_CellsAsPassed ==
    ExactValues =>
        LET start_idx == LastRegion(prev)[1]
            n == Len(last.values[1])
        IN  /\ Line(content, start_idx) = WithCell(Line(prev, start_idx), last.text)
            /\ Line(content, start_idx + 1)
                 = WithCell(Line(prev, start_idx + 1), <<"-", "-", "-">>)
            /\ \A k \in 1..n :
                   Line(content, start_idx + 1 + k)
                     = WithCell(Line(prev, start_idx + 1 + k), last.values[1][k])

(* C8, amended: as C8, with h and each value trimmed of surrounding        *)
(* whitespace inside its cell; the call ends without an error.             *)
C8_CellsTrimmed ==
    ExactValues =>
        LET start_idx == LastRegion(prev)[1]
            n == Len(last.values[1])
        IN  /\ err = NoError
            /\ Line(content, start_idx)
                 = WithCell(Line(prev, start_idx), Strip(last.text))
            /\ Line(content, start_idx + 1)
                 = WithCell(Line(prev, start_idx + 1), <<"-", "-", "-">>)
            /\ \A k \in 1..n :
                   Line(content, start_idx + 1 + k)
                     = WithCell(Line(prev, start_idx + 1 + k),
                                Strip(last.values[1][k]))

\* add_column was given as many values as the region has data rows, at least one
C8_Witness == ExactValues /\ Len(last.values[1]) >= 1

---------------------------------------------------------------------------
(* C9: add_column changes nothing outside the last region of the scanner:  *)
(* the buffer keeps its length and every line outside that region, the     *)
(* lines of earlier tables included, is as before.                         *)
C9_OnlyLastRegionChanges ==
    last.op = "add_column" =>
        /\ Len(content) = Len(prev)
        /\ Regions(prev) = <<>> => content = prev
        /\ Regions(prev) # <<>> =>
               \A i \in 0..(Len(prev) - 1) :
                   (i < LastRegion(prev)[1] \/ i >= LastRegion(prev)[2])
                       => Line(content, i) = Line(prev, i)

\* add_column changed a buffer that holds several tables
C9_Witness ==
    /\ last.op = "add_column" /\ err = NoError
    /\ Len(Regions(prev)) >= 2
    /\ content # prev

---------------------------------------------------------------------------
(* C10: add_header(text, level) appends three lines: a blank line, the     *)
(* line of hashes, a space and the trimmed text, and a blank line; the     *)
(* buffer grows by three (as claimed).                                     *)
C10_HeaderThreeLines ==
    last.op = "add_header" =>
        /\ Len(content) = Len(prev) + 3
        /\ content[Len(prev) + 1] = <<>>
        /\ content[Len(prev) + 2]
             = Hashes(ClampLevel(last.level)) \o <<" ">> \o Strip(last.text)
        /\ content[Len(prev) + 3] = <<>>

(* C10, amended: add_header(text, level) appends one element: a newline,   *)
(* min(6, max(1, level)) hashes, a space, the trimmed text and a newline;  *)
(* the buffer grows by exactly one and its earlier elements stay.          *)
C10_HeaderOneElement ==
    last.op = "add_header" =>
        /\ Len(content) = Len(prev) + 1
        /\ SubSeq(content, 1, Len(prev)) = prev
        /\ LET e == content[Len(content)]
               n == IF last.level > 6 THEN 6 ELSE IF last.level < 1 THEN 1 ELSE last.level
               t == Strip(last.text)
           IN  /\ Len(e) = n + Len(t) + 3
               /\ e[1] = "\n"
               /\ \A j \in 2..(n + 1) : e[j] = "#"
               /\ e[n + 2] = " "
               /\ SubSeq(e, n + 3, Len(e) - 1) = t
               /\ t # <<>> => (t[1] \notin Whitespace /\ t[Len(t)] \notin Whitespace)
               /\ e[Len(e)] = "\n"

\* a header with a level above 6 and a padded text, appended to a buffer
\* that is not empty
C10_Witness ==
    /\ last.op = "add_header" /\ last.level > 6
    /\ last.text # Strip(last.text)
    /\ prev # <<>>

---------------------------------------------------------------------------
(* C11: add_text(text) appends text as one line with no blank line added:  *)
(* the appended element equals text, and the saved document has no blank   *)
(* line after it (as claimed).                                             *)
C11_TextAsItIs ==
    last.op = "add_text" =>
        /\ Len(content) = Len(prev) + 1
        /\ content[Len(content)] = last.text
        /\ Suffix(SaveText(content), Len(last.text) + 1) = last.text \o <<"\n">>

(* C11, amended: add_text(text) appends one element, text followed by one  *)
(* newline; the buffer grows by one and its earlier elements stay; the     *)
(* saved document ends with text and two newlines, a blank line after the  *)
(* text.                                                                   *)
C11_TextThenNewline ==
    last.op = "add_text" =>
        /\ Len(content) = Len(prev) + 1
        /\ SubSeq(content, 1, Len(prev)) = prev
        /\ content[Len(content)] = last.text \o <<"\n">>
        /\ Suffix(SaveText(content), Len(last.text) + 2) = last.text \o <<"\n", "\n">>

\* a text appended after a table
C11_Witness ==
    /\ last.op = "add_text"
    /\ Len(prev) >= 3 /\ StartsWithPipe(prev[Len(prev)])

---------------------------------------------------------------------------
(* C12: create_table([]) and add_table_row([]) each end with their         *)
(* empty-list ValueError, and the buffer after the call is the buffer      *)
(* before it.                                                              *)
C12_EmptyListRejected ==
    /\ (last.op = "create_table" /\ last.list = <<>>) =>
           err = HeadersEmpty /\ content = prev
    /\ (last.op = "add_table_row" /\ last.list = <<>>) =>
           err = ValuesEmpty /\ content = prev

\* create_table([]) on a buffer that already holds a table and a row
C12_Witness ==
    /\ last.op = "create_table" /\ last.list = <<>>
    /\ Len(prev) >= 4 /\ err # NoError

---------------------------------------------------------------------------
(* C13: create_table with n >= 1 headers appends three lines: a blank      *)
(* line, the header row "| h1 | ... | hn |" and a separator row of n       *)
(* "---" cells; add_table_row(values) appends the one line                 *)
(* "| v1 | ... | vk |" as the new last line (as claimed: the headers and   *)
(* values as passed).                                                      *)
C13_RowsAsPassed ==
    /\ TableCreated =>
           /\ Len(content) = Len(prev) + 3
           /\ content[Len(prev) + 1] = <<>>
           /\ content[Len(prev) + 2] = PipeRow(last.list)
           /\ content[Len(prev) + 3] = PipeRow([k \in 1..Len(last.list) |-> <<"-", "-", "-">>])
    /\ RowAdded =>
           /\ Len(content) = Len(prev) + 1
           /\ content[Len(content)] = PipeRow(last.list)

(* C13, amended: as C13, with every header and every value trimmed of      *)
(* surrounding whitespace in its cell; the earlier elements of the buffer  *)
(* stay.                                                                   *)
C13_RowsTrimmed ==
    /\ TableCreated =>
           /\ err = NoError
           /\ Len(content) = Len(prev) + 3
           /\ SubSeq(content, 1, Len(prev)) = prev
           /\ content[Len(prev) + 1] = <<>>
           /\ content[Len(prev) + 2] = PipeRow([k \in 1..Len(last.list) |-> Strip(last.list[k])])
           /\ content[Len(prev) + 3] = PipeRow([k \in 1..Len(last.list) |-> <<"-", "-", "-">>])
           /\ Segments(content[Len(prev) + 3]) = Len(last.list) + 2
    /\ RowAdded =>
           /\ err = NoError
           /\ Len(content) = Len(prev) + 1
           /\ SubSeq(content, 1, Len(prev)) = prev
           /\ content[Len(content)] = PipeRow([k \in 1..Len(last.list) |-> Strip(last.list[k])])

\* a row appended right after create_table made a table of two columns
C13_Witness ==
    /\ RowAdded
    /\ Len(prev) >= 3
    /\ prev[Len(prev)] = PipeRow(<<<<"-", "-", "-">>, <<"-", "-", "-">>>>)
    /\ prev[Len(prev) - 2] = <<>>

---------------------------------------------------------------------------
(* C14: for every integer level, the header add_header appends starts with *)
(* a newline, then exactly min(6, max(1, level)) "#" characters, then a    *)
(* space.                                                                  *)
C14_LevelClamped ==
    last.op = "add_header" =>
        LET e == content[Len(content)]
            n == Min(6, Max(1, last.level))
        IN  /\ Len(e) >= n + 2
            /\ e[1] = "\n"
            /\ \A k \in 2..(n + 1) : e[k] = "#"
            /\ e[n + 2] = " "

\* a header of level 8 after another header
C14_Witness ==
    /\ last.op = "add_header" /\ last.level = 8
    /\ prev # <<>>

---------------------------------------------------------------------------
(* C15: after a save that did not fail, the file holds every element of    *)
(* the buffer followed by one newline (the elements joined by newlines and *)
(* a final newline; a single newline for the empty buffer), whatever the   *)
(* file held before; the buffer is the buffer before the save.             *)
C15_SaveOverwrites ==
    SaveDone =>
        /\ err = NoError
        /\ content = prev
        /\ file = <<IF content = <<>> THEN <<"\n">> ELSE EachThenNewline(content)>>

\* a save over a longer document that another program had left in the file
C15_Witness ==
    /\ SaveDone
    /\ content # <<>>
    /\ prev_file # <<>> /\ saved # <<prev_file[1]>>
    /\ Len(prev_file[1]) > Len(file[1])

---------------------------------------------------------------------------
(* C16: a construction whose storage does not fail ends without an error;  *)
(* in discard mode the file is gone and the buffer is empty; in preserve   *)
(* mode the file is the file before and the buffer is the line sequence of *)
(* its text, the empty buffer when the file is missing.                    *)
C16_ConstructionByMode ==
    InitDone =>
        /\ err = NoError
        /\ ~last.preserve_existing => file = <<>> /\ content = <<>>
        /\ last.preserve_existing =>
              /\ file = prev_file
              /\ prev_file = <<>> => content = <<>>
              /\ prev_file # <<>> => LinesOf(content, ReadText(prev_file[1]))

\* preserve mode on a document of two lines that another program wrote
C16_Witness ==
    /\ InitDone /\ last.preserve_existing
    /\ prev_file # <<>> /\ saved = <<>>
    /\ Len(content) = 2

---------------------------------------------------------------------------
(* C17: in discard mode with backups enabled and an existing file, the     *)
(* copy is taken of the file as it was before the unlink, and a failing    *)
(* copy is not fatal: either way the construction ends without an error,   *)
(* the file deleted and the buffer empty.                                  *)
C17_BackupThenDelete ==
    BackupCase =>
        /\ err = NoError
        /\ file = <<>>
        /\ content = <<>>
        /\ last.fault = "none" => backup = prev_file
        /\ last.fault = "backup" => backup = <<>>

\* the copy failed on a file that a save had written
C17_Witness ==
    /\ BackupCase /\ last.fault = "backup"
    /\ Len(prev_file[1]) >= 2
    /\ err = NoError

---------------------------------------------------------------------------
(* C18: a failing unlink or read_text makes the construction end with that *)
(* OSError, the file left as it was (no second attempt); a failing mkdir   *)
(* or write_text makes save end with that OSError, the buffer unchanged.   *)
C18_StorageFailureRaised ==
    /\ (last.op = "__init__" /\ last.fault = "unlink" /\ prev_file # <<>>) =>
           err = DeleteFailed /\ file = prev_file
    /\ (last.op = "__init__" /\ last.fault = "read" /\ prev_file # <<>>) =>
           err = LoadFailed /\ file = prev_file
    /\ (last.op = "save" /\ last.fault = "mkdir") =>
           err = MkdirFailed /\ content = prev /\ file = prev_file
    /\ (last.op = "save" /\ last.fault = "write") =>
           err = WriteFailed /\ content = prev

\* the unlink of an existing file failed after its backup was made
C18_Witness ==
    /\ last.op = "__init__" /\ last.fault = "unlink"
    /\ prev_file # <<>> /\ backup = prev_file
    /\ err = DeleteFailed

---------------------------------------------------------------------------
(* C19: a manager of discard mode holds the buffer its builder calls build *)
(* from the empty buffer, and its save leaves the document of that buffer, *)
(* whatever the file held before the construction or before the save.      *)
C19_Regeneration ==
    fresh # <<>> =>
        /\ content = fresh[1]
        /\ SaveDone => file = <<SaveText(fresh[1])>>

\* a regeneration saved over another document
C19_Witness ==
    /\ SaveDone /\ fresh # <<>>
    /\ Len(content) >= 2
    /\ prev_file # <<>> /\ prev_file # file

---------------------------------------------------------------------------
(* C20: create_link(text, url) returns "[T](U)", T the text with every "|" *)
(* replaced by "\|", U the url with every "|" replaced by "%7C", both      *)
(* trimmed of surrounding whitespace; U holds no "|".                      *)
C20_LinkEscaped ==
    last.op = "create_link" =>
        LET T == Strip(Join(Split(last.text, "|"), <<"\\", "|">>))
            U == Strip(Join(Split(last.url, "|"), <<"%", "7", "C">>))
        IN  /\ ret = <<"[">> \o T \o <<"]", "(">> \o U \o <<")">>
            /\ \A k \in 1..Len(U) : U[k] # "|"
            /\ \A k \in (Len(T) + 4)..(Len(ret) - 1) : ret[k] # "|"

\* a padded text and a padded url, each with a "|"
C20_Witness ==
    /\ last.op = "create_link"
    /\ last.text = <<" ", "a", "|", "b">> /\ last.url = <<"u", "|", "v", " ">>
    /\ Len(ret) = 13

---------------------------------------------------------------------------
(* C21: create_image_link returns the image markup "![alt](image_url)"     *)
(* when no link_url is given, and whenever a link_url is given it returns  *)
(* the image markup wrapped as "[![alt](image_url)](link_url)", the "|" of *)
(* link_url replaced by "%7C" (as claimed: for every link_url given, the   *)
(* empty string included).                                                 *)
C21_WrappedWhenGiven ==
    last.op = "create_image_link" =>
        ret = IF last.link_url = <<>> THEN LastImage ELSE LastImageLinked

(* C21, amended: create_image_link returns the image markup when link_url  *)
(* is None or the empty string, and the image markup wrapped in a link to  *)
(* link_url, its "|" replaced by "%7C" and then trimmed, for every other   *)
(* link_url (a blank link_url gives an empty link target); alt and         *)
(* image_url are escaped and trimmed as in create_link.                    *)
C21_WrappedWhenNotEmpty ==
    last.op = "create_image_link" =>
        ret = IF last.link_url = <<>> \/ last.link_url = <<<<>>>>
              THEN LastImage ELSE LastImageLinked

\* the empty string given as link_url: the image is returned unwrapped
C21_Witness ==
    /\ last.op = "create_image_link"
    /\ last.link_url = <<<<>>>>
    /\ last.text = <<" ", "a", "|", "b">>
    /\ ret[1] = "!"

---------------------------------------------------------------------------
(* C22: a region opened at index i is closed at the first index j > i      *)
(* whose line does not start with "|" (end j) or which is the last index   *)
(* (end j + 1 if its line starts with "|", else j): the scanner returns    *)
(* <<i, end>> for every index i at which it opened a region, and no region *)
(* is open when the scan finishes.                                         *)
C22_OpenedRegionClosed ==
    /\ ScanAfter(content, Len(content)).start_idx = <<>>
    /\ \A i \in 0..(Len(content) - 2) :
           OpenedAt(content, i) =>
               LET regs == Regions(content)
                   j == FirstClose(content, i)
               IN  \E r \in 1..Len(regs) : regs[r] = <<i, Boundary(content, j)>>

---------------------------------------------------------------------------
---------------------------------------------------------------------------
(* C24: whenever add_column ends in an error, whichever it is, the buffer  *)
(* is the buffer before the call.                                          *)
C24_ColumnAllOrNothing ==
    (last.op = "add_column" /\ err # NoError) => content = prev

---------------------------------------------------------------------------
(* C25: every region <<s, e>> the scanner returns has e >= s + 2, a header *)
(* row and a separator row, whatever the buffer holds.                     *)
C25_RegionHasTwoRows ==
    LET regs == Regions(content)
    IN  \A r \in 1..Len(regs) : regs[r][2] >= regs[r][1] + 2

====
